---- MODULE Spec2Model ----
(***************************************************************************)
(* pg_keeper: a cluster-membership and failover supervisor for PostgreSQL. *)
(*                                                                         *)
(* The model has three kinds of processes:                                 *)
(*   - the supervisor (background worker) running KeeperMain;              *)
(*   - database backends calling the SQL functions add_node, del_node,     *)
(*     del_node_by_seqno, indirect_polling and indirect_kill, each inside  *)
(*     the calling statement's transaction;                                *)
(*   - the environment: signal senders, the synchronous_standby_names      *)
(*     setting, the operating system's pid allocation.                     *)
(*                                                                         *)
(* pg_keeper.c is modelled from its code.  The routines it calls that live *)
(* in other files of the repository (the management-table helpers, the     *)
(* reconciler, the master and standby loops) are modelled from the         *)
(* design document, sections 4.2, 4.3 and 4.5.                             *)
(***************************************************************************)
EXTENDS Integers, Sequences, FiniteSets, TLC

(* ------------------------------------------------------------------ *)
(* Bounds of the model                                                  *)
(* ------------------------------------------------------------------ *)

\* the largest sequence number the registry's allocator hands out
MaxSeq == 2

\* the largest value of pg_keeper.keepalives_count that is explored
MaxCount == 3

\* the count of dispatches is kept up to this value and stays there
MaxDispatch == 3

(* ------------------------------------------------------------------ *)
(* Program constants and input domains                                  *)
(* ------------------------------------------------------------------ *)

\* the process id of the supervisor (MyProcPid)
MyProcPid == 7

Backends == {"b1", "b2"}

\* the backends that issue calls when calls are made one at a time
SerialBackends == {"b1"}

BackendPid(b) == IF b = "b1" THEN 11 ELSE 12

Names == {"n1", "n2"}

Conninfos == {"addr1"}

\* what the remote server does with one heartbeat connection
Outcomes == {"conn_null", "conn_bad", "tuples_ok", "command_ok"}

SignalNames == {"SIGUSR1", "sigusr1", "SIGHUP", "SIGTERM"}

\* every value synchronous_standby_names can take: ordered, without repeats
SSLists ==
    {<<>>} \cup {<<n>> : n \in Names}
           \cup {<<n, m>> : <<n, m>> \in {p \in Names \X Names : p[1] # p[2]}}

\* member names synchronous_standby_names can hold beside the node names:
\* one that differs from a node name in letter case only, and one that has
\* a node name as a proper prefix
MemberNames == Names \cup {"N1", "n10"}

\* the values of synchronous_standby_names over those names
MemberLists ==
    {<<>>} \cup {<<n>> : n \in MemberNames}
           \cup {<<n, m>> : <<n, m>> \in {p \in MemberNames \X MemberNames : p[1] # p[2]}}

\* the values of synchronous_standby_names that name at most one node
ShortLists == {members \in SSLists : Len(members) <= 1}

VARIABLES
    table,            \* the committed rows of the management table
    nextSeq,          \* the next sequence number of the table's allocator
    ssnames,          \* the live synchronous_standby_names member list
    tx,               \* per backend: the transaction of its current call
    PgKeeperPid,      \* the shared-memory cell *PgKeeperPid
    pc,               \* the supervisor's position in KeeperMain
    current_status,   \* KeeperStatus current_status
    retry_count,      \* consecutive heartbeat failures seen by the standby loop
    ret,              \* KeeperMain's local ret
    exit_code,        \* the status given to proc_exit, -1 while running
    got_sighup, got_sigterm, got_sigusr1,   \* flags set by the signal handlers
    latch,            \* MyProc->procLatch is set
    pending,          \* signals sent to the worker while it blocks signals
    KeeperRepNodes,   \* the supervisor's cached node list
    keeper_keepalives_count,  \* pg_keeper.keepalives_count
    keeper_node_name, \* pg_keeper.node_name
    in_recovery,      \* the local server is replaying from a primary
    pidReused,        \* another process now runs under the supervisor's old pid
    promotions,       \* history: number of promotions performed
    streak,           \* history: consecutive unreachable results seen as standby
    dispatches        \* history: times control reached the dispatch at exec

regvars == <<table, nextSeq, ssnames, tx>>
supvars == <<pc, current_status, retry_count, ret, exit_code, KeeperRepNodes,
             keeper_keepalives_count, keeper_node_name, in_recovery>>
sigvars == <<got_sighup, got_sigterm, got_sigusr1, latch, pending>>
histvars == <<promotions, streak, dispatches>>
vars == <<regvars, PgKeeperPid, supvars, sigvars, pidReused, histvars>>

(* ------------------------------------------------------------------ *)
(* Heartbeat client                                                     *)
(* ------------------------------------------------------------------ *)

\* execSQL without its check of the result status
execSQL_nostatus(outcome) ==
    IF outcome = "conn_null" THEN FALSE ELSE TRUE

\* execSQL: false when the connection is NULL or the result status is
\* neither PGRES_TUPLES_OK nor PGRES_COMMAND_OK
execSQL(outcome) ==
    IF outcome = "conn_null" THEN FALSE
    ELSE IF outcome # "tuples_ok" /\ outcome # "command_ok" THEN FALSE
    ELSE TRUE

\* heartbeatServer with the test of execSQL's result dropped
heartbeatServer_always(outcome) == TRUE

heartbeatServer(outcome) ==
    IF ~execSQL(outcome) THEN FALSE ELSE TRUE

(* ------------------------------------------------------------------ *)
(* Management table                                                     *)
(* ------------------------------------------------------------------ *)

Row(seqno, name, conninfo, is_master, is_sync) ==
    [seqno |-> seqno, name |-> name, conninfo |-> conninfo,
     is_master |-> is_master, is_sync |-> is_sync]

RECURSIVE BySeqno(_)
\* the rows of a set as a sequence, sequence number ascending
BySeqno(rows) ==
    IF rows = {} THEN <<>>
    ELSE LET lo == CHOOSE r \in rows : \A q \in rows : r.seqno <= q.seqno
         IN  <<lo>> \o BySeqno(rows \ {lo})

\* listNodes: ordered by sequence number; the filter drops the master row
listNodes(rows, includeMaster) ==
    BySeqno({r \in rows : includeMaster \/ ~r.is_master})

\* getAllRepNodes as add_node uses it: every tuple of the table is counted
\* ("if no tuple exists, this node will be inserted as a master"); the
\* flag does not select rows
getAllRepNodes(rows, flag) == BySeqno(rows)

\* the bytes of the strings the model handles (ASCII codes)
Chars(s) ==
    CASE s = "n1" -> <<110, 49>>
      [] s = "n2" -> <<110, 50>>
      [] s = "N1" -> <<78, 49>>
      [] s = "n10" -> <<110, 49, 48>>
      [] s = "SIGUSR1" -> <<83, 73, 71, 85, 83, 82, 49>>
      [] s = "sigusr1" -> <<115, 105, 103, 117, 115, 114, 49>>
      [] s = "SIGHUP" -> <<83, 73, 71, 72, 85, 80>>
      [] s = "SIGTERM" -> <<83, 73, 71, 84, 69, 82, 77>>
      [] OTHER -> <<>>

\* the byte at position i of a C string, 0 at its end
CharAt(str, i) == IF i <= Len(str) THEN str[i] ELSE 0

\* ASCII case folding of one byte: 'A'..'Z' to 'a'..'z'
Lower(ch) == IF ch >= 65 /\ ch <= 90 THEN ch + 32 ELSE ch

RECURSIVE CaseCmpFrom(_, _, _)
\* the loop of pg_strcasecmp from position i
CaseCmpFrom(s1, s2, i) ==
    LET ch1 == Lower(CharAt(s1, i))
        ch2 == Lower(CharAt(s2, i))
    IN  IF ch1 # ch2 THEN ch1 - ch2
        ELSE IF ch1 = 0 THEN 0
        ELSE CaseCmpFrom(s1, s2, i + 1)

RECURSIVE CmpFrom(_, _, _)
\* the loop of strcmp from position i
CmpFrom(s1, s2, i) ==
    LET ch1 == CharAt(s1, i)
        ch2 == CharAt(s2, i)
    IN  IF ch1 # ch2 THEN ch1 - ch2
        ELSE IF ch1 = 0 THEN 0
        ELSE CmpFrom(s1, s2, i + 1)

RECURSIVE CasePrefixFrom(_, _, _)
\* the loop of a comparison that stops at the end of its second argument
CasePrefixFrom(s1, s2, i) ==
    LET ch1 == Lower(CharAt(s1, i))
        ch2 == Lower(CharAt(s2, i))
    IN  IF ch2 = 0 THEN 0
        ELSE IF ch1 # ch2 THEN ch1 - ch2
        ELSE CasePrefixFrom(s1, s2, i + 1)

\* a comparison that does not fold case
pg_strcasecmp_exact(a, b) == CmpFrom(Chars(a), Chars(b), 1)

\* a comparison of the leading bytes only, as many as b has
pg_strcasecmp_prefix(a, b) == CasePrefixFrom(Chars(a), Chars(b), 1)

\* pg_strcasecmp: 0 when the strings are equal up to ASCII case, else the
\* difference of the first two bytes that differ
pg_strcasecmp(a, b) == CaseCmpFrom(Chars(a), Chars(b), 1)

RECURSIVE MemberScan(_, _, _)
\* the loop of add_node over RepConfig->member_names
MemberScan(members, i, node_name) ==
    IF i > Len(members) THEN FALSE
    ELSE IF pg_strcasecmp(members[i], node_name) = 0 THEN TRUE
    ELSE MemberScan(members, i + 1, node_name)

\* the reconciler's membership test of one node name: the same scan
InSSNames(members, name) == MemberScan(members, 1, name)

\* a call's transaction: its state, the function called, what the remote
\* server of its heartbeat really did ("none": no heartbeat), the value
\* returned, the rows inserted (as inserted), the sequence numbers deleted,
\* the is_sync updates made afterwards, the pids its kill signalled, whether
\* that was the live supervisor
NoTx == [st |-> "idle", op |-> "none", hb |-> "none", ret |-> FALSE,
         ins |-> {}, del |-> {}, upd |-> {}, sent |-> {}, killed |-> FALSE]

\* the rows a transaction sees: the committed rows with its own deletes,
\* inserts and is_sync updates applied
Apply(rows, w) ==
    {IF \E u \in w.upd : u[1] = r.seqno
       THEN [r EXCEPT !.is_sync = (CHOOSE u \in w.upd : u[1] = r.seqno)[2]]
       ELSE r : r \in {q \in rows : q.seqno \notin w.del} \cup w.ins}

\* a reconciler that rewrites is_sync of every row, changed or not
SyncWrites_all(rows, members) ==
    {<<r.seqno, InSSNames(members, r.name)>> : r \in rows}

\* the writes of one reconciler run over the visible rows: one per row whose
\* is_sync differs from its membership in the live list
SyncWrites(rows, members) ==
    {<<r.seqno, InSSNames(members, r.name)>> :
        r \in {q \in rows : q.is_sync # InSSNames(members, q.name)}}

\* a reconciler that also registers a listed member that has no row
updateManageTableAccordingToSSNames_invent(rows, w, members, dryRun) ==
    IF dryRun THEN w
    ELSE LET seen == Apply(rows, w)
             writes == SyncWrites(seen, members)
             missing == {i \in 1..Len(members) :
                           \A r \in seen : ~InSSNames(<<members[i]>>, r.name)}
             k == IF seen = {} THEN 1
                  ELSE 1 + (CHOOSE q \in {r.seqno : r \in seen} :
                               \A r \in seen : r.seqno <= q)
         IN  [w EXCEPT
                !.upd = {u \in w.upd : \A v \in writes : v[1] # u[1]} \cup writes,
                !.ins = IF missing = {} THEN w.ins
                        ELSE w.ins \cup {[seqno |-> k,
                                          name |-> members[CHOOSE i \in missing : TRUE],
                                          conninfo |-> "addr1", is_master |-> FALSE,
                                          is_sync |-> TRUE]}]

\* updateManageTableAccordingToSSNames(dryRun) inside transaction w
updateManageTableAccordingToSSNames(rows, w, members, dryRun) ==
    IF dryRun THEN w
    ELSE LET writes == SyncWrites(Apply(rows, w), members)
         IN  [w EXCEPT
                !.upd = {u \in w.upd : \A v \in writes : v[1] # u[1]} \cup writes]

\* the contents the management table can have: names and sequence numbers
\* are unique; the role columns are whatever earlier statements left
Registries ==
    {rows \in SUBSET [seqno : 1..MaxSeq, name : Names, conninfo : Conninfos,
                       is_master : BOOLEAN, is_sync : BOOLEAN] :
        \A r \in rows : \A q \in rows :
            (r.seqno = q.seqno \/ r.name = q.name) => r = q}

\* the sequence number after the largest one in use
SeqAfter(rows) ==
    IF rows = {} THEN 1
    ELSE 1 + (CHOOSE k \in {r.seqno : r \in rows} : \A r \in rows : r.seqno <= k)

addNewNode(w, seqno, name, conninfo, is_master, is_sync) ==
    [w EXCEPT !.ins = w.ins \cup {Row(seqno, name, conninfo, is_master, is_sync)}]

deleteNodeByName(rows, w, name) ==
    LET hit == {r \in Apply(rows, w) : r.name = name}
    IN  [w EXCEPT !.del = w.del \cup {r.seqno : r \in hit},
                  !.ret = (hit # {})]

deleteNodeBySeqno(rows, w, seqno) ==
    LET hit == {r \in Apply(rows, w) : r.seqno = seqno}
    IN  [w EXCEPT !.del = w.del \cup {r.seqno : r \in hit},
                  !.ret = (hit # {})]

(* ------------------------------------------------------------------ *)
(* Signals                                                              *)
(* ------------------------------------------------------------------ *)

\* the supervisor process exists
SupervisorAlive == pc # "exited"

pg_keeper_sigterm ==
    /\ got_sigterm' = TRUE
    /\ latch' = TRUE
    /\ UNCHANGED <<got_sighup, got_sigusr1>>

\* a SIGHUP handler that raises the termination flag as well
pg_keeper_sighup_term ==
    /\ got_sighup' = TRUE
    /\ got_sigterm' = TRUE
    /\ latch' = TRUE
    /\ UNCHANGED got_sigusr1

pg_keeper_sighup ==
    /\ got_sighup' = TRUE
    /\ latch' = TRUE
    /\ UNCHANGED <<got_sigterm, got_sigusr1>>

\* a SIGUSR1 handler that sets the latch and forgets the flag
pg_keeper_sigusr1_latchonly ==
    /\ latch' = TRUE
    /\ UNCHANGED <<got_sighup, got_sigterm, got_sigusr1>>

pg_keeper_sigusr1 ==
    /\ got_sigusr1' = TRUE
    /\ latch' = TRUE
    /\ UNCHANGED <<got_sighup, got_sigterm>>

\* a signal sent to the supervisor process.  The worker starts with its
\* signals blocked: until KeeperMain unblocks them the signal stays pending
\* and no handler runs; from then on, and so already while the worker
\* connects and the cell still holds 0, the handler runs at once
SendToSupervisor(sig) ==
    IF pc = "init"
    THEN /\ pending' = pending \cup {sig}
         /\ UNCHANGED <<got_sighup, got_sigterm, got_sigusr1, latch>>
    ELSE /\ CASE sig = "SIGTERM" -> pg_keeper_sigterm
              [] sig = "SIGHUP" -> pg_keeper_sighup
              [] sig = "SIGUSR1" -> pg_keeper_sigusr1
         /\ UNCHANGED pending

\* kill(2): pid 0 addresses the caller's process group, of which the caller
\* is a member; a positive pid addresses the process that holds it, if any
Recipients(pid, caller) ==
    IF pid = 0 THEN {BackendPid(caller)}
    ELSE IF pid = MyProcPid /\ (SupervisorAlive \/ pidReused) THEN {pid}
    ELSE {}

\* the kill reaches the supervisor itself
Reaches(pid, caller) == SupervisorAlive /\ MyProcPid \in Recipients(pid, caller)

\* kill(pid, SIGUSR1) issued by backend caller
kill(pid, caller) ==
    IF Reaches(pid, caller)
    THEN SendToSupervisor("SIGUSR1")
    ELSE UNCHANGED sigvars

\* the call's record of its kill: the pids signalled, and whether the live
\* supervisor was the one reached
Killed(w, pid, caller) ==
    [w EXCEPT !.sent = Recipients(pid, caller), !.killed = Reaches(pid, caller)]

(* ------------------------------------------------------------------ *)
(* SQL-callable functions, each run inside the caller's transaction     *)
(* ------------------------------------------------------------------ *)

\* the server answered the liveness query
Reachable(outcome) == outcome \in {"tuples_ok", "command_ok"}

Called(op) == [NoTx EXCEPT !.st = "active", !.op = op]

Polled(op, outcome) ==
    [Called(op) EXCEPT !.hb = IF Reachable(outcome) THEN "reachable" ELSE "unreachable"]

\* every node is taken for the master
FirstNode_any(num) == num >= 0

\* the first registered node must be the master
FirstNode(num) == (num = 0)

add_node(b, node_name, conninfo, outcome) ==
    /\ tx[b].st = "idle"
    /\ IF ~heartbeatServer(outcome)
       THEN /\ tx' = [tx EXCEPT ![b] = [Polled("add_node", outcome) EXCEPT !.ret = FALSE]]
            /\ UNCHANGED <<table, nextSeq, sigvars>>
       ELSE LET rows == Apply(table, tx[b])
                num == Len(getAllRepNodes(rows, FALSE))
                is_master == FirstNode(num)
                is_sync == ~is_master /\ MemberScan(ssnames, 1, node_name)
                w1 == addNewNode(Polled("add_node", outcome), nextSeq, node_name,
                                 conninfo, is_master, is_sync)
                w2 == updateManageTableAccordingToSSNames(table, w1, ssnames, FALSE)
            IN  IF \E r \in rows : r.name = node_name
                THEN \* the insert violates the unique name: ERROR
                     /\ tx' = [tx EXCEPT ![b] = [Polled("add_node", outcome) EXCEPT
                                                   !.st = "aborted"]]
                     /\ UNCHANGED <<table, nextSeq, sigvars>>
                ELSE \* an insert of a name that an open transaction has
                     \* inserted waits for that transaction to end
                     /\ \A c \in Backends \ {b} : tx[c].st = "active" =>
                            \A r \in tx[c].ins : r.name # node_name
                     /\ nextSeq <= MaxSeq
                     /\ nextSeq' = nextSeq + 1
                     /\ kill(PgKeeperPid, b)
                     /\ tx' = [tx EXCEPT ![b] =
                                  Killed([w2 EXCEPT !.ret = TRUE], PgKeeperPid, b)]
                     /\ UNCHANGED table
    /\ UNCHANGED <<ssnames, PgKeeperPid, supvars, pidReused,
                   histvars>>

del_node(b, node_name) ==
    /\ tx[b].st = "idle"
    /\ LET w1 == deleteNodeByName(table, Called("del_node"), node_name)
           w2 == updateManageTableAccordingToSSNames(table, w1, ssnames, FALSE)
       IN  tx' = [tx EXCEPT ![b] = Killed(w2, PgKeeperPid, b)]
    /\ kill(PgKeeperPid, b)
    /\ UNCHANGED <<table, nextSeq, ssnames, PgKeeperPid, supvars, pidReused,
                   histvars>>

del_node_by_seqno(b, seqno) ==
    /\ tx[b].st = "idle"
    /\ LET w1 == deleteNodeBySeqno(table, Called("del_node_by_seqno"), seqno)
           w2 == updateManageTableAccordingToSSNames(table, w1, ssnames, FALSE)
       IN  tx' = [tx EXCEPT ![b] = Killed(w2, PgKeeperPid, b)]
    /\ kill(PgKeeperPid, b)
    /\ UNCHANGED <<table, nextSeq, ssnames, PgKeeperPid, supvars, pidReused,
                   histvars>>

indirect_polling(b, conninfo, outcome) ==
    /\ tx[b].st = "idle"
    /\ tx' = [tx EXCEPT ![b] = [Polled("indirect_polling", outcome) EXCEPT
                                  !.ret = heartbeatServer(outcome)]]
    /\ UNCHANGED <<table, nextSeq, ssnames, PgKeeperPid, supvars, sigvars,
                   pidReused, histvars>>

indirect_kill(b, signal) ==
    /\ tx[b].st = "idle"
    /\ IF pg_strcasecmp(signal, "SIGUSR1") = 0 \/ pg_strcasecmp(signal, "SIGUSR1") = 0
       THEN /\ kill(PgKeeperPid, b)
            /\ tx' = [tx EXCEPT ![b] =
                         Killed([Called("indirect_kill") EXCEPT !.ret = TRUE],
                                PgKeeperPid, b)]
       ELSE \* ereport(ERROR): the statement is aborted
            /\ tx' = [tx EXCEPT ![b] = [Called("indirect_kill") EXCEPT
                                          !.st = "aborted"]]
            /\ UNCHANGED sigvars
    /\ UNCHANGED <<table, nextSeq, ssnames, PgKeeperPid, supvars, pidReused,
                   histvars>>

\* the calling statement's transaction commits: its writes become visible
Commit(b) ==
    /\ tx[b].st = "active"
    /\ table' = Apply(table, tx[b])
    /\ tx' = [tx EXCEPT ![b] = NoTx]
    /\ UNCHANGED <<nextSeq, ssnames, PgKeeperPid, supvars, sigvars,
                   pidReused, histvars>>

\* the transaction rolls back: after an ERROR, or because the client asks
Rollback(b) ==
    /\ tx[b].st \in {"active", "aborted"}
    /\ tx' = [tx EXCEPT ![b] = NoTx]
    /\ UNCHANGED <<table, nextSeq, ssnames, PgKeeperPid, supvars, sigvars,
                   pidReused, histvars>>

(* ------------------------------------------------------------------ *)
(* The supervisor: KeeperMain                                           *)
(* ------------------------------------------------------------------ *)

MasterStatuses == {"KEEPER_MASTER_READY", "KEEPER_MASTER_CONNECTED", "KEEPER_MASTER_ASYNC"}
StandbyStatuses == {"KEEPER_STANDBY_READY", "KEEPER_STANDBY_CONNECTED", "KEEPER_STANDBY_ALONE"}

\* every value of KeeperStatus
Statuses == StandbyStatuses \cup MasterStatuses

\* the role the status stands for, as the process title renders it: the
\* three standby values are tested for, every other value is a master's
Role(status) ==
    IF status \in StandbyStatuses THEN "Standby"
    ELSE "Master"

\* checkParameter, the initial status, the signal handlers, the unblocking:
\* the handler of every signal that was pending runs as signals are unblocked
KeeperMain_start ==
    /\ pc = "init"
    /\ IF keeper_node_name = ""
       THEN \* elog(ERROR): the worker exits with status 1, its signals
            \* still blocked; what was pending is never handled
            /\ pc' = "exited"
            /\ exit_code' = 1
            /\ UNCHANGED <<current_status, got_sighup, got_sigterm, got_sigusr1,
                           latch>>
       ELSE /\ current_status' = IF in_recovery THEN "KEEPER_STANDBY_READY"
                                                 ELSE "KEEPER_MASTER_READY"
            /\ got_sighup' = (got_sighup \/ "SIGHUP" \in pending)
            /\ got_sigterm' = (got_sigterm \/ "SIGTERM" \in pending)
            /\ got_sigusr1' = (got_sigusr1 \/ "SIGUSR1" \in pending)
            /\ latch' = (latch \/ pending # {})
            /\ pc' = "connect"
            /\ UNCHANGED exit_code
    /\ pending' = {}
    /\ UNCHANGED <<regvars, PgKeeperPid, retry_count, ret, KeeperRepNodes,
                   keeper_keepalives_count, keeper_node_name, in_recovery,
                   pidReused, histvars>>

\* BackgroundWorkerInitializeConnection, then the write of the cell: a
\* connection that cannot be made is FATAL and ends the worker with
\* status 1, the cell not written
KeeperMain_connect(connected) ==
    /\ pc = "connect"
    /\ IF connected
       THEN /\ PgKeeperPid' = MyProcPid
            /\ pc' = "exec"
            /\ UNCHANGED exit_code
       ELSE /\ pc' = "exited"
            /\ exit_code' = 1
            /\ UNCHANGED PgKeeperPid
    /\ UNCHANGED <<regvars, current_status, retry_count, ret, KeeperRepNodes,
                   keeper_keepalives_count, keeper_node_name, in_recovery, sigvars,
                   pidReused, histvars>>

\* a fresh read of the registry into the local cache
updateLocalCache(rows) == listNodes(rows, TRUE)

setupKeeperMaster ==
    /\ KeeperRepNodes' = updateLocalCache(table)
    /\ UNCHANGED retry_count

setupKeeperStandby ==
    /\ KeeperRepNodes' = updateLocalCache(table)
    /\ retry_count' = 0

\* the dispatch at label exec
KeeperMain_exec ==
    /\ pc = "exec"
    /\ IF current_status = "KEEPER_MASTER_READY"
       THEN setupKeeperMaster /\ pc' = "master" /\ UNCHANGED exit_code
       ELSE IF current_status = "KEEPER_STANDBY_READY"
       THEN setupKeeperStandby /\ pc' = "standby" /\ UNCHANGED exit_code
       ELSE \* ereport(ERROR, invalid keeper mode)
            /\ pc' = "exited"
            /\ exit_code' = 1
            /\ UNCHANGED <<KeeperRepNodes, retry_count>>
    /\ dispatches' = IF dispatches < MaxDispatch THEN dispatches + 1 ELSE dispatches
    /\ UNCHANGED <<regvars, PgKeeperPid, current_status, ret, keeper_keepalives_count,
                   keeper_node_name, in_recovery, sigvars, pidReused, promotions,
                   streak>>

\* KeeperMain ending the process after a promotion instead of re-executing
KeeperMain_standby_ret_exit ==
    /\ pc = "standby_ret"
    /\ pc' = "exited"
    /\ exit_code' = ret
    /\ UNCHANGED <<regvars, PgKeeperPid, current_status, retry_count, ret,
                   KeeperRepNodes, keeper_keepalives_count, keeper_node_name,
                   in_recovery, sigvars, pidReused, histvars>>

\* KeeperMain re-executing under the standby status after a promotion
KeeperMain_standby_ret_again ==
    /\ pc = "standby_ret"
    /\ IF ret # 0
       THEN /\ current_status' = "KEEPER_STANDBY_READY"
            /\ pc' = "exec"
            /\ UNCHANGED exit_code
       ELSE /\ pc' = "exited"
            /\ exit_code' = ret
            /\ UNCHANGED current_status
    /\ UNCHANGED <<regvars, PgKeeperPid, retry_count, ret, KeeperRepNodes,
                   keeper_keepalives_count, keeper_node_name, in_recovery,
                   sigvars, pidReused, histvars>>

\* KeeperMain re-executing after a promotion without setting the new status
KeeperMain_standby_ret_keep ==
    /\ pc = "standby_ret"
    /\ IF ret # 0
       THEN /\ pc' = "exec"
            /\ UNCHANGED exit_code
       ELSE /\ pc' = "exited"
            /\ exit_code' = ret
    /\ UNCHANGED <<regvars, PgKeeperPid, current_status, retry_count, ret,
                   KeeperRepNodes, keeper_keepalives_count, keeper_node_name,
                   in_recovery, sigvars, pidReused, histvars>>

\* KeeperMain giving up the cell before it re-executes as a master
KeeperMain_standby_ret_clear ==
    /\ pc = "standby_ret"
    /\ IF ret # 0
       THEN /\ current_status' = "KEEPER_MASTER_READY"
            /\ PgKeeperPid' = 0
            /\ pc' = "exec"
            /\ UNCHANGED exit_code
       ELSE /\ pc' = "exited"
            /\ exit_code' = ret
            /\ UNCHANGED <<current_status, PgKeeperPid>>
    /\ UNCHANGED <<regvars, retry_count, ret, KeeperRepNodes,
                   keeper_keepalives_count, keeper_node_name, in_recovery,
                   sigvars, pidReused, histvars>>

\* what KeeperMain does with the standby routine's result
KeeperMain_standby_ret ==
    /\ pc = "standby_ret"
    /\ IF ret # 0
       THEN /\ current_status' = "KEEPER_MASTER_READY"
            /\ pc' = "exec"
            /\ UNCHANGED exit_code
       ELSE /\ pc' = "exited"
            /\ exit_code' = ret
            /\ UNCHANGED current_status
    /\ UNCHANGED <<regvars, PgKeeperPid, retry_count, ret, KeeperRepNodes,
                   keeper_keepalives_count, keeper_node_name, in_recovery, sigvars, pidReused,
                   histvars>>

\* KeeperMain re-executing after the master routine returns
KeeperMain_master_ret_loop ==
    /\ pc = "master_ret"
    /\ pc' = "exec"
    /\ current_status' = "KEEPER_MASTER_READY"
    /\ UNCHANGED <<regvars, PgKeeperPid, retry_count, ret, exit_code,
                   KeeperRepNodes, keeper_keepalives_count, keeper_node_name,
                   in_recovery, sigvars, pidReused, histvars>>

\* what KeeperMain does with the master routine's result: proc_exit(ret)
KeeperMain_master_ret ==
    /\ pc = "master_ret"
    /\ pc' = "exited"
    /\ exit_code' = ret
    /\ UNCHANGED <<regvars, PgKeeperPid, current_status, retry_count, ret,
                   KeeperRepNodes, keeper_keepalives_count, keeper_node_name, in_recovery,
                   sigvars, pidReused, histvars>>

(* ------------------------------------------------------------------ *)
(* The standby loop                                                     *)
(* ------------------------------------------------------------------ *)

\* steps 1 to 4: read the registry for the primary's row, poll the primary
\* and count
KeeperMainStandby_poll(outcome) ==
    /\ pc = "standby"
    /\ KeeperRepNodes' = updateLocalCache(table)
    /\ IF heartbeatServer(outcome)
       THEN /\ retry_count' = 0
            /\ streak' = IF Reachable(outcome) THEN 0 ELSE streak + 1
            /\ current_status' = "KEEPER_STANDBY_CONNECTED"
            /\ pc' = "standby_wait"
       ELSE /\ retry_count' = retry_count + 1
            /\ streak' = IF Reachable(outcome) THEN 0 ELSE streak + 1
            /\ IF retry_count' < keeper_keepalives_count
               THEN current_status' = "KEEPER_STANDBY_CONNECTED" /\ pc' = "standby_wait"
               ELSE current_status' = "KEEPER_STANDBY_ALONE" /\ pc' = "promote"
    /\ UNCHANGED <<regvars, PgKeeperPid, ret, exit_code,
                   keeper_keepalives_count, keeper_node_name, in_recovery, sigvars, pidReused,
                   promotions, dispatches>>

\* the promotion procedure: promote, run the after command, return true
doPromote ==
    /\ pc = "promote"
    /\ promotions' = promotions + 1
    /\ in_recovery' = FALSE
    /\ ret' = 1
    /\ pc' = "standby_ret"
    /\ UNCHANGED <<regvars, PgKeeperPid, current_status, retry_count, exit_code,
                   KeeperRepNodes, keeper_keepalives_count, keeper_node_name,
                   sigvars, pidReused, streak, dispatches>>

\* a call that signalled the supervisor has writes that are not committed
Uncommitted == \E b \in Backends :
    /\ tx[b].st = "active"
    /\ tx[b].killed
    /\ Apply(table, tx[b]) # table

\* WaitLatch returns, because the latch is set or the timeout has passed,
\* and ResetLatch clears the latch
WaitLatch(to) ==
    /\ latch' = FALSE
    /\ pc' = to
    /\ UNCHANGED <<got_sighup, got_sigterm, got_sigusr1, pending>>

\* the pending flags are looked at once, after the wait has returned, and a
\* flag is cleared when its handling starts; next is the loop's own position,
\* refresh the position of the SIGUSR1 handling, done the routine's return
\* (a pending SIGHUP re-reads the configuration file; the file is taken as
\* unchanged while the worker runs, so the parameters keep their values)
HandleSignals(next, refresh, done) ==
    /\ IF got_sigterm
       THEN /\ ret' = 0
            /\ pc' = done
            /\ UNCHANGED <<got_sighup, got_sigusr1>>
       ELSE /\ got_sighup' = FALSE
            /\ got_sigusr1' = FALSE
            /\ pc' = IF got_sigusr1 THEN refresh ELSE next
            /\ UNCHANGED ret
    /\ UNCHANGED <<got_sigterm, latch, pending>>

\* the handling of SIGUSR1: the reconciler runs in a transaction of its own,
\* then the node list is read again
RefreshOnSigusr1(next) ==
    /\ table' = Apply(table, updateManageTableAccordingToSSNames(
                                table, NoTx, ssnames, FALSE))
    /\ KeeperRepNodes' = updateLocalCache(table')
    /\ pc' = next

\* step 5: the timed wait
KeeperMainStandby_wait ==
    /\ pc = "standby_wait"
    /\ WaitLatch("standby_sig")
    /\ UNCHANGED <<regvars, PgKeeperPid, current_status, retry_count, ret,
                   exit_code, KeeperRepNodes, keeper_keepalives_count,
                   keeper_node_name, in_recovery, pidReused, histvars>>

\* step 5: the signals
KeeperMainStandby_signals ==
    /\ pc = "standby_sig"
    /\ HandleSignals("standby", "standby_refresh", "standby_ret")
    /\ UNCHANGED <<regvars, PgKeeperPid, current_status, retry_count,
                   exit_code, KeeperRepNodes, keeper_keepalives_count,
                   keeper_node_name, in_recovery, pidReused, histvars>>

KeeperMainStandby_refresh ==
    /\ pc = "standby_refresh"
    /\ RefreshOnSigusr1("standby")
    /\ UNCHANGED <<nextSeq, ssnames, tx, PgKeeperPid, current_status, retry_count,
                   ret, exit_code, keeper_keepalives_count, keeper_node_name,
                   in_recovery, sigvars, pidReused, histvars>>

(* ------------------------------------------------------------------ *)
(* The master loop                                                      *)
(* ------------------------------------------------------------------ *)

\* a master poll that looks at the registry and forgets what it read
KeeperMainMaster_poll_nocache(outcome) ==
    /\ pc = "master"
    /\ LET standbys == listNodes(table, FALSE)
       IN  IF ~\E i \in 1..Len(standbys) : standbys[i].is_sync
           THEN current_status' = "KEEPER_MASTER_ASYNC"
           ELSE IF heartbeatServer(outcome)
           THEN current_status' = "KEEPER_MASTER_CONNECTED"
           ELSE current_status' = "KEEPER_MASTER_ASYNC"
    /\ pc' = "master_wait"
    /\ UNCHANGED <<regvars, PgKeeperPid, retry_count, ret, exit_code,
                   KeeperRepNodes, keeper_keepalives_count, keeper_node_name, in_recovery, sigvars, pidReused,
                   histvars>>

\* steps 1 to 3: the node list is read from the registry on every tick, the
\* standbys are taken from it, the synchronous one is polled
KeeperMainMaster_poll(outcome) ==
    /\ pc = "master"
    /\ KeeperRepNodes' = updateLocalCache(table)
    /\ LET standbys == SelectSeq(KeeperRepNodes', LAMBDA r : ~r.is_master)
       IN  IF ~\E i \in 1..Len(standbys) : standbys[i].is_sync
           THEN current_status' = "KEEPER_MASTER_ASYNC"
           ELSE IF heartbeatServer(outcome)
           THEN current_status' = "KEEPER_MASTER_CONNECTED"
           ELSE current_status' = "KEEPER_MASTER_ASYNC"
    /\ pc' = "master_wait"
    /\ UNCHANGED <<regvars, PgKeeperPid, retry_count, ret, exit_code,
                   keeper_keepalives_count, keeper_node_name, in_recovery, sigvars, pidReused,
                   histvars>>

\* step 4: the timed wait
KeeperMainMaster_wait ==
    /\ pc = "master_wait"
    /\ WaitLatch("master_sig")
    /\ UNCHANGED <<regvars, PgKeeperPid, current_status, retry_count, ret,
                   exit_code, KeeperRepNodes, keeper_keepalives_count,
                   keeper_node_name, in_recovery, pidReused, histvars>>

\* step 4: the signals
KeeperMainMaster_signals ==
    /\ pc = "master_sig"
    /\ HandleSignals("master", "master_refresh", "master_ret")
    /\ UNCHANGED <<regvars, PgKeeperPid, current_status, retry_count,
                   exit_code, KeeperRepNodes, keeper_keepalives_count,
                   keeper_node_name, in_recovery, pidReused, histvars>>

KeeperMainMaster_refresh ==
    /\ pc = "master_refresh"
    /\ RefreshOnSigusr1("master")
    /\ UNCHANGED <<nextSeq, ssnames, tx, PgKeeperPid, current_status, retry_count,
                   ret, exit_code, keeper_keepalives_count, keeper_node_name,
                   in_recovery, sigvars, pidReused, histvars>>

(* ------------------------------------------------------------------ *)
(* The environment                                                      *)
(* ------------------------------------------------------------------ *)

\* a signal sent to the supervisor from outside (postmaster, operator)
Signal(sig) ==
    /\ SupervisorAlive
    /\ SendToSupervisor(sig)
    /\ UNCHANGED <<regvars, PgKeeperPid, supvars, pidReused, histvars>>

\* synchronous_standby_names is changed
SetSSNames(members) ==
    /\ members # ssnames
    /\ ssnames' = members
    /\ UNCHANGED <<table, nextSeq, tx, PgKeeperPid, supvars, sigvars, pidReused,
                   histvars>>

\* the operating system gives the dead supervisor's pid to a new process
PidReuse ==
    /\ ~SupervisorAlive
    /\ ~pidReused
    /\ pidReused' = TRUE
    /\ UNCHANGED <<regvars, PgKeeperPid, supvars, sigvars, histvars>>

(* ------------------------------------------------------------------ *)
(* Specifications                                                       *)
(* ------------------------------------------------------------------ *)

\* current_status is a zero-initialised global: it starts as the
\* KeeperStatus value numbered 0, whichever of the values that is
Init ==
    /\ table = {}
    /\ nextSeq = 1
    /\ ssnames \in SSLists
    /\ tx = [b \in Backends |-> NoTx]
    /\ PgKeeperPid = 0
    /\ pc = "init"
    /\ current_status \in Statuses
    /\ retry_count = 0
    /\ ret = 0
    /\ exit_code = -1
    /\ got_sighup = FALSE
    /\ got_sigterm = FALSE
    /\ got_sigusr1 = FALSE
    /\ latch = FALSE
    /\ pending = {}
    /\ KeeperRepNodes = <<>>
    /\ keeper_keepalives_count \in 1..MaxCount
    /\ keeper_node_name \in {"", "node1"}
    /\ in_recovery \in BOOLEAN
    /\ pidReused = FALSE
    /\ promotions = 0
    /\ streak = 0
    /\ dispatches = 0

\* one call, or the end of one call's transaction, by backend b
Backend(b) ==
    \/ \E n \in Names, c \in Conninfos, o \in Outcomes : add_node(b, n, c, o)
    \/ \E n \in Names : del_node(b, n)
    \/ \E q \in 1..MaxSeq : del_node_by_seqno(b, q)
    \/ \E c \in Conninfos, o \in Outcomes : indirect_polling(b, c, o)
    \/ \E s \in SignalNames : indirect_kill(b, s)
    \/ Commit(b)
    \/ Rollback(b)

Supervisor ==
    \/ KeeperMain_start
    \/ \E connected \in BOOLEAN : KeeperMain_connect(connected)
    \/ KeeperMain_exec
    \/ \E o \in Outcomes : KeeperMainStandby_poll(o)
    \/ doPromote
    \/ KeeperMainStandby_wait
    \/ KeeperMainStandby_signals
    \/ KeeperMainStandby_refresh
    \/ KeeperMain_standby_ret
    \/ \E o \in Outcomes : KeeperMainMaster_poll(o)
    \/ KeeperMainMaster_wait
    \/ KeeperMainMaster_signals
    \/ KeeperMainMaster_refresh
    \/ KeeperMain_master_ret

Environment ==
    \/ \E s \in {"SIGTERM", "SIGHUP", "SIGUSR1"} : Signal(s)
    \/ \E m \in SSLists : SetSSNames(m)
    \/ PidReuse

\* calls are made one at a time, by one client
Next ==
    \/ \E b \in SerialBackends : Backend(b)
    \/ Supervisor
    \/ Environment

Spec == Init /\ [][Next]_vars

\* a supervisor of either role
InitKeeper ==
    /\ Init
    /\ ssnames \in ShortLists

\* the supervisor with its signals, beside a client that only adds nodes
NextKeeper ==
    \/ Supervisor
    \/ \E s \in {"SIGTERM", "SIGHUP", "SIGUSR1"} : Signal(s)
    \/ \E n \in Names, c \in Conninfos : add_node("b1", n, c, "tuples_ok")
    \/ Commit("b1")
    \/ Rollback("b1")

SpecKeeper == InitKeeper /\ [][NextKeeper]_vars

\* the supervisor is a running process: it takes its next step
SpecKeeperFair == SpecKeeper /\ WF_vars(Supervisor)

\* the supervisor alone with the signals sent to it, the registry left empty
InitSignals ==
    /\ Init
    /\ ssnames = <<>>

NextSignals ==
    \/ Supervisor
    \/ \E s \in {"SIGTERM", "SIGHUP", "SIGUSR1"} : Signal(s)

SpecSignals == InitSignals /\ [][NextSignals]_vars

\* the supervisor is a running process: it takes its next step
SpecSignalsFair == SpecSignals /\ WF_vars(Supervisor)

\* a supervisor of either role beside one client that calls every function
InitCell ==
    /\ Init
    /\ keeper_keepalives_count = 1
    /\ ssnames = <<>>

NextCell ==
    \/ Supervisor
    \/ \E s \in {"SIGTERM", "SIGUSR1"} : Signal(s)
    \/ \E b \in SerialBackends : Backend(b)

SpecCell == InitCell /\ [][NextCell]_vars

\* the registry of a primary: its supervisor runs the master routine
InitRegistry ==
    /\ Init
    /\ keeper_keepalives_count = 1
    /\ keeper_node_name # ""
    /\ ~in_recovery
    /\ ssnames \in ShortLists

NextRegistry ==
    \/ \E b \in SerialBackends : Backend(b)
    \/ KeeperMain_start
    \/ \E connected \in BOOLEAN : KeeperMain_connect(connected)
    \/ KeeperMain_exec
    \/ \E o \in Outcomes : KeeperMainMaster_poll(o)
    \/ KeeperMainMaster_wait
    \/ KeeperMainMaster_signals
    \/ KeeperMainMaster_refresh
    \/ KeeperMain_master_ret
    \/ \E s \in {"SIGTERM", "SIGUSR1"} : Signal(s)
    \/ \E m \in ShortLists : SetSSNames(m)
    \/ PidReuse

SpecRegistry == InitRegistry /\ [][NextRegistry]_vars

SupervisorMaster ==
    \/ KeeperMain_start
    \/ \E connected \in BOOLEAN : KeeperMain_connect(connected)
    \/ KeeperMain_exec
    \/ \E o \in Outcomes : KeeperMainMaster_poll(o)
    \/ KeeperMainMaster_wait
    \/ KeeperMainMaster_signals
    \/ KeeperMainMaster_refresh
    \/ KeeperMain_master_ret

SpecRegistryFair == SpecRegistry /\ WF_vars(SupervisorMaster)

\* the supervisor of a primary from its start on, kept running
SupervisorLoop ==
    \/ KeeperMain_start
    \/ \E connected \in BOOLEAN : KeeperMain_connect(connected)
    \/ KeeperMain_exec
    \/ \E o \in Outcomes : KeeperMainMaster_poll(o)
    \/ KeeperMainMaster_wait
    \/ KeeperMainMaster_signals
    \/ KeeperMainMaster_refresh

\* one client adding and deleting nodes, one call's transaction at a time,
\* beside the supervisor of a primary and changes of the member list
NextAdd ==
    \/ \E n \in Names, c \in Conninfos, o \in Outcomes : add_node("b1", n, c, o)
    \/ \E n \in Names : del_node("b1", n)
    \/ Commit("b1")
    \/ Rollback("b1")
    \/ KeeperMain_start
    \/ \E connected \in BOOLEAN : KeeperMain_connect(connected)
    \/ KeeperMain_exec
    \/ \E o \in Outcomes : KeeperMainMaster_poll(o)
    \/ KeeperMainMaster_wait
    \/ KeeperMainMaster_signals
    \/ KeeperMainMaster_refresh
    \/ \E m \in ShortLists : SetSSNames(m)

SpecAdd == InitRegistry /\ [][NextAdd]_vars

\* a client adding and deleting nodes beside the supervisor of a primary,
\* under a fixed member list
NextVisible ==
    \/ \E n \in Names, c \in Conninfos : add_node("b1", n, c, "tuples_ok")
    \/ \E n \in Names : del_node("b1", n)
    \/ Commit("b1")
    \/ Rollback("b1")
    \/ SupervisorLoop

SpecVisible == InitRegistry /\ [][NextVisible]_vars

\* the supervisor is a running process: it takes its next step
SpecVisibleFair == SpecVisible /\ WF_vars(SupervisorLoop)

\* one client calling the functions on a management table that already
\* holds rows, under a fixed synchronous_standby_names; no supervisor runs
InitTable ==
    /\ table \in Registries
    /\ nextSeq = SeqAfter(table)
    /\ ssnames \in MemberLists
    /\ tx = [b \in Backends |-> NoTx]
    /\ PgKeeperPid = 0
    /\ pc = "init"
    /\ current_status \in Statuses
    /\ retry_count = 0
    /\ ret = 0
    /\ exit_code = -1
    /\ got_sighup = FALSE
    /\ got_sigterm = FALSE
    /\ got_sigusr1 = FALSE
    /\ latch = FALSE
    /\ pending = {}
    /\ KeeperRepNodes = <<>>
    /\ keeper_keepalives_count = 1
    /\ keeper_node_name = "node1"
    /\ in_recovery = FALSE
    /\ pidReused = FALSE
    /\ promotions = 0
    /\ streak = 0
    /\ dispatches = 0

NextTable == \E b \in SerialBackends : Backend(b)

SpecTable == InitTable /\ [][NextTable]_vars

\* two clients that add nodes in transactions that may overlap
NextConcurrent ==
    \/ \E b \in Backends : \E n \in Names, c \in Conninfos :
          add_node(b, n, c, "tuples_ok")
    \/ \E b \in Backends : Commit(b)
    \/ \E b \in Backends : Rollback(b)

SpecConcurrent == InitRegistry /\ [][NextConcurrent]_vars

(* ------------------------------------------------------------------ *)
(* Properties of the supervisor                                         *)
(* ------------------------------------------------------------------ *)

\* KeeperMain has determined the keeper mode of the process
StatusSet == keeper_node_name # "" /\ pc # "init"

InStandbyLoop == pc \in {"standby", "standby_wait", "standby_sig", "standby_refresh"}

\* C1: promotion threshold.  While the standby loop runs, retry_count is the
\* number of consecutive unreachable results (any reachable result puts it
\* back to 0) and is below the threshold; the promotion is entered exactly
\* when that number reaches the threshold; and a supervisor that started as
\* a standby is in the master role only after exactly that many failures.
C1_PromotionThreshold ==
    /\ InStandbyLoop => retry_count = streak /\ retry_count < keeper_keepalives_count
    /\ pc = "promote" => retry_count = streak /\ streak = keeper_keepalives_count
    /\ (pc = "standby_ret" /\ ret # 0) => streak = keeper_keepalives_count
    /\ (StatusSet /\ Role(current_status) = "Master" /\ (in_recovery \/ promotions > 0))
          => streak = keeper_keepalives_count /\ promotions = 1
    /\ promotions > 0 => streak = keeper_keepalives_count

\* C1 witness: a promotion on the third consecutive failure, threshold 3
C1_Witness ==
    /\ pc = "promote"
    /\ keeper_keepalives_count = 3
    /\ retry_count = 3
    /\ streak = 3

\* C5: promotion continues in place.  With k consecutive failures below the
\* threshold the substate is STANDBY_CONNECTED, at the threshold it is
\* STANDBY_ALONE and the promotion runs; the step after the promotion sets
\* MASTER_READY and goes back to the dispatch without exiting, and the
\* dispatch then enters the master routine, whose loop runs in the same
\* process.  For threshold 3 this is CONNECTED, CONNECTED, ALONE, MASTER_READY.
C5_PromotionInPlace ==
    /\ []((pc \in {"standby_wait", "standby_sig", "standby_refresh"})
            => current_status = "KEEPER_STANDBY_CONNECTED")
    /\ []((pc = "promote" \/ (pc = "standby_ret" /\ ret # 0))
            => /\ current_status = "KEEPER_STANDBY_ALONE"
               /\ streak = keeper_keepalives_count)
    /\ [][(pc = "promote" /\ pc' # pc)
            => pc' = "standby_ret" /\ ret' # 0 /\ exit_code' = -1]_vars
    /\ [][(pc = "standby_ret" /\ ret # 0 /\ pc' # pc)
            => /\ current_status' = "KEEPER_MASTER_READY"
               /\ pc' = "exec"
               /\ exit_code' = -1]_vars
    /\ [][(pc = "exec" /\ promotions > 0 /\ pc' # pc)
            => /\ pc' = "master"
               /\ current_status' = "KEEPER_MASTER_READY"
               /\ exit_code' = -1]_vars
    /\ [][(pc = "master" /\ promotions > 0 /\ pc' # pc)
            => pc' = "master_wait" /\ exit_code' = -1]_vars

\* C5 witness: the first master-loop iteration after a promotion at threshold 3
C5_Witness ==
    /\ pc = "master_wait"
    /\ promotions = 1
    /\ keeper_keepalives_count = 3
    /\ streak = 3
    /\ exit_code = -1

\* C6: no demotion, at most one promotion.  A role, once held, changes only
\* from Standby to Master, a Master stays Master, and one process performs
\* at most one promotion.
C6_NoDemotion ==
    /\ [][(StatusSet /\ Role(current_status) = "Master")
            => Role(current_status') = "Master"]_vars
    /\ [][(StatusSet /\ Role(current_status') # Role(current_status))
            => /\ Role(current_status) = "Standby"
               /\ Role(current_status') = "Master"
               /\ promotions = 1]_vars
    /\ [](promotions <= 1)

\* C6 witness: a promoted master that has polled, with signals pending
C6_Witness ==
    /\ promotions = 1
    /\ current_status = "KEEPER_MASTER_ASYNC"
    /\ got_sigusr1
    /\ got_sighup

\* the worker has come through its startup: it is at the dispatch, in a
\* loop or between the two, and has not ended
Started == pc \notin {"init", "connect", "exited"}

\* the loop has seen SIGTERM and left, or the process has ended
TermObserved ==
    \/ pc = "exited"
    \/ pc \in {"standby_ret", "master_ret"} /\ ret = 0

\* C10: SIGTERM leads to a clean exit.  Once SIGTERM is delivered to a
\* supervisor that has come through its startup, or was delivered during a
\* startup that succeeded, the process ends with status 0;
\* and after the loop has observed it no promotion is performed and the
\* role does not change.
C10_SigtermCleanExit ==
    /\ (got_sigterm /\ Started) ~> (pc = "exited" /\ exit_code = 0)
    /\ [][TermObserved => /\ promotions' = promotions
                           /\ current_status' = current_status
                           /\ TermObserved']_vars

\* C10 witness: a standby one failure short of promotion has ended with 0
C10_Witness ==
    /\ pc = "exited"
    /\ exit_code = 0
    /\ got_sigterm
    /\ current_status = "KEEPER_STANDBY_CONNECTED"
    /\ retry_count > 0

(* ------------------------------------------------------------------ *)
(* Properties of the registry functions                                 *)
(* ------------------------------------------------------------------ *)

Masters(rows) == {r \in rows : r.is_master}

\* the call of backend b has returned and its transaction is still open
Returned(b, ops) == tx[b].st = "active" /\ tx[b].op \in ops

\* the call of backend b wrote nothing, signalled nobody
NoEffect(b) ==
    /\ tx[b].ins = {}
    /\ tx[b].del = {}
    /\ tx[b].upd = {}
    /\ tx[b].sent = {}
    /\ ~tx[b].killed

\* C2: at most one master under serialized mutation.  With calls made one
\* at a time, at most one committed row has is_master, and it is the first
\* inserted node: no row has a smaller sequence number.  A call made when
\* the table holds a row inserts a row that is not a master.
C2_AtMostOneMaster ==
    /\ Cardinality(Masters(table)) <= 1
    /\ \A r \in Masters(table) : \A q \in table : r.seqno <= q.seqno
    /\ \A b \in Backends :
          (Returned(b, {"add_node"}) /\ tx[b].ret /\ table # {})
             => \A r \in tx[b].ins : ~r.is_master

\* C2 witness: a second add_node, made when the table holds only the
\* master row, has inserted its row
C2_Witness ==
    /\ Returned("b1", {"add_node"})
    /\ tx["b1"].ret
    /\ Cardinality(table) = 1
    /\ Masters(table) = table
    /\ \E r \in tx["b1"].ins : ~r.is_master

\* C3: add_node on an unreachable address fails cleanly.  A call whose
\* heartbeat finds the server unreachable returns false, having inserted
\* nothing, run no reconciliation and sent no signal; the step of the call
\* changes neither the table, the allocator nor the supervisor's flags.
C3_AddUnreachableFails ==
    /\ [](\A b \in Backends :
            (tx[b].op = "add_node" /\ tx[b].hb = "unreachable")
               => /\ tx[b].st = "active"
                  /\ ~tx[b].ret
                  /\ NoEffect(b)
                  /\ Apply(table, tx[b]) = table)
    /\ [][\A b \in Backends :
            (tx[b].st = "idle" /\ tx'[b].op = "add_node" /\ tx'[b].hb = "unreachable")
               => /\ table' = table
                  /\ nextSeq' = nextSeq
                  /\ got_sigusr1' = got_sigusr1
                  /\ latch' = latch
                  /\ KeeperRepNodes' = KeeperRepNodes]_vars

\* C3 witness: the call has failed where a reconciliation would have written
\* and a signal would have reached the waiting supervisor
C3_Witness ==
    /\ Returned("b1", {"add_node"})
    /\ tx["b1"].hb = "unreachable"
    /\ ~tx["b1"].ret
    /\ SyncWrites(table, ssnames) # {}
    /\ PgKeeperPid = MyProcPid
    /\ pc = "master_wait"
    /\ ~got_sigusr1

\* C4: deleting a nonexistent node is a pure failure.  A delete that returns
\* false leaves every row as it was: its transaction holds no write.
C4_FailedDeletePure ==
    \A b \in Backends :
        (Returned(b, {"del_node", "del_node_by_seqno"}) /\ ~tx[b].ret)
           => Apply(table, tx[b]) = table

\* the supervisor is in its handling of SIGUSR1, about to reload the registry
Refreshing == pc \in {"standby_refresh", "master_refresh"}

\* C7: notification follows commit.  When the supervisor, handling SIGUSR1,
\* reloads the registry, no call that signalled it has uncommitted writes.
C7_NotifyAfterCommit ==
    [][(Refreshing /\ pc' # pc) => ~Uncommitted]_vars

\* the supervisor's node list shows the committed registry
CacheCurrent == KeeperRepNodes = listNodes(table, TRUE)

\* C8: eventual registry visibility.  Every poll tick of the master loop and
\* every refresh leaves the node list equal to the committed registry, and
\* the node list changes in no other step; so whenever the node list of a
\* supervisor that has started differs from the committed registry, it
\* comes to equal it at the next tick, unless the supervisor ends; and unless
\* the registry keeps changing or the supervisor ends, the node list
\* eventually equals the committed registry and stays equal.
C8_EventualVisibility ==
    /\ [][(pc \in {"master", "master_refresh"} /\ pc' # pc) => CacheCurrent']_vars
    /\ [][KeeperRepNodes' # KeeperRepNodes => CacheCurrent']_vars
    /\ (Started /\ ~CacheCurrent) ~> (CacheCurrent \/ pc = "exited")
    /\ \/ []<><<table' # table>>_vars
       \/ <>(pc = "exited")
       \/ <>[]CacheCurrent

\* C8 witness: the supervisor, signalled by a call before its commit, has
\* refreshed too early; the commit is done, no signal is pending, and the
\* node list does not show the new row yet
C8_Witness ==
    /\ pc = "master_wait"
    /\ ~got_sigusr1
    /\ tx["b1"].st = "idle"
    /\ table # {}
    /\ ~CacheCurrent

\* C9: signalling with no supervisor is a no-op.  Every process a call
\* signals is the live supervisor.
C9_NoStraySignal ==
    \A b \in Backends :
        Returned(b, {"add_node", "del_node", "del_node_by_seqno", "indirect_kill"})
           => /\ tx[b].sent \subseteq {MyProcPid}
              /\ tx[b].sent # {} => tx[b].killed

(* ------------------------------------------------------------------ *)
(* Properties of the signalling function                                *)
(* ------------------------------------------------------------------ *)

\* the signal names indirect_kill accepts: SIGUSR1, in any letter case
Recognized(signal) == signal \in {"SIGUSR1", "sigusr1"}

\* C11: sendSignal.  A call of indirect_kill with a name it does not accept
\* ends in a reported error: it signals no process, and the supervisor's
\* flags, latch, position and state are as before, so the supervisor keeps
\* running.  A call with an accepted name returns true, having called kill
\* with the pid held in the cell: when that is the running supervisor's pid,
\* the supervisor and no other process gets SIGUSR1.
C11_SendSignal ==
    [][\A b \in Backends : \A s \in SignalNames :
          (tx[b].st = "idle" /\ tx'[b].op = "indirect_kill" /\ indirect_kill(b, s)) =>
             IF Recognized(s)
             THEN /\ tx'[b].st = "active"
                  /\ tx'[b].ret
                  /\ tx'[b].sent = Recipients(PgKeeperPid, b)
                  /\ (PgKeeperPid = MyProcPid /\ SupervisorAlive)
                        => /\ tx'[b].sent = {MyProcPid}
                           /\ tx'[b].killed
                           /\ got_sigusr1'
                           /\ latch'
                  /\ UNCHANGED <<table, supvars, PgKeeperPid>>
             ELSE /\ tx'[b].st = "aborted"
                  /\ ~tx'[b].ret
                  /\ tx'[b].sent = {}
                  /\ ~tx'[b].killed
                  /\ UNCHANGED <<table, supvars, sigvars, PgKeeperPid>>]_vars

\* C11 witness: a refused call beside a supervisor waiting in its loop
C11_Witness ==
    /\ tx["b1"].op = "indirect_kill"
    /\ tx["b1"].st = "aborted"
    /\ PgKeeperPid = MyProcPid
    /\ pc = "master_wait"
    /\ ~got_sigusr1
    /\ ~latch

(* ------------------------------------------------------------------ *)
(* Properties of concurrent calls                                       *)
(* ------------------------------------------------------------------ *)

\* the row the open add_node call of backend b inserted is a master row
InsertedMaster(b) ==
    /\ Returned(b, {"add_node"})
    /\ \E r \in tx[b].ins : r.is_master

\* C12: concurrent addNode against an empty registry.  Two add_node
\* transactions that are open together on an empty registry have not both
\* seen zero rows and both inserted their row with is_master = true.
C12_ConcurrentAdd ==
    \A b \in Backends : \A c \in Backends \ {b} :
        table = {} => ~(InsertedMaster(b) /\ InsertedMaster(c))

(* ------------------------------------------------------------------ *)
(* Properties of the reconciler                                         *)
(* ------------------------------------------------------------------ *)

\* the rows after one reconciler run in a transaction of its own
ReconcileOnce(rows, members) ==
    Apply(rows, updateManageTableAccordingToSSNames(rows, NoTx, members, FALSE))

\* the returned call of backend b is one that ran the reconciler
Reconciled(b) ==
    \/ Returned(b, {"del_node", "del_node_by_seqno"})
    \/ Returned(b, {"add_node"}) /\ tx[b].ret

\* C13: reconciliation idempotence.  For every registry and every live list,
\* a reconciler run that follows a reconciler run, with the list and the
\* registry as the first run left them, writes nothing and leaves the rows
\* as they are; this holds of a run in a transaction of its own and of the
\* run an add or delete call makes before it returns.
C13_ReconcileIdempotent ==
    /\ [](LET once == ReconcileOnce(table, ssnames)
          IN  /\ SyncWrites(once, ssnames) = {}
              /\ ReconcileOnce(once, ssnames) = once)
    /\ [][\A b \in Backends :
            (tx[b].st = "idle" /\ tx'[b].st = "active"
                /\ tx'[b].op \in {"add_node", "del_node", "del_node_by_seqno"}
                /\ (tx'[b].op = "add_node" => tx'[b].ret))
              => /\ SyncWrites(Apply(table', tx'[b]), ssnames') = {}
                 /\ updateManageTableAccordingToSSNames(
                        table', tx'[b], ssnames', FALSE) = tx'[b]]_vars

\* C13 witness: a delete call whose reconciler run wrote to a remaining row
C13_Witness ==
    /\ Returned("b1", {"del_node"})
    /\ tx["b1"].ret
    /\ tx["b1"].upd # {}
    /\ Cardinality(table) = 2
    /\ ReconcileOnce(table, ssnames) # table

\* C14: a master is never synchronous.  No committed row has both
\* is_master and is_sync, whatever the calls made and whatever the live
\* list, also when the list names the master node.
C14_MasterNeverSync ==
    \A r \in table : ~(r.is_master /\ r.is_sync)

\* the rows without their is_sync column
SansSync(rows) ==
    {[seqno |-> r.seqno, name |-> r.name, conninfo |-> r.conninfo,
      is_master |-> r.is_master] : r \in rows}

\* the two row sets hold the same rows but for the values of is_sync
SameButSync(before, after) ==
    /\ SansSync(after) = SansSync(before)
    /\ Cardinality(after) = Cardinality(before)

\* C15: the reconciler leaves is_master alone.  For every registry and every
\* live list, a reconciler run changes no row's is_master, name, conninfo or
\* sequence number and neither inserts nor removes a row; this holds of a run
\* in a transaction of its own and of the run an add or delete call makes
\* after its insert or delete, whose only writes are is_sync updates of rows
\* that exist.
C15_ReconcileFrame ==
    /\ [](SameButSync(table, ReconcileOnce(table, ssnames)))
    /\ [][\A b \in Backends :
            (tx[b].st = "idle" /\ tx'[b].st = "active"
                /\ tx'[b].op \in {"add_node", "del_node", "del_node_by_seqno"}
                /\ (tx'[b].op = "add_node" => tx'[b].ret))
              => LET mutated == Apply(table', [tx'[b] EXCEPT !.upd = {}])
                     reconciled == Apply(table', tx'[b])
                 IN  /\ SameButSync(mutated, reconciled)
                     /\ \A u \in tx'[b].upd : \E r \in mutated : r.seqno = u[1]
                     /\ Cardinality(tx'[b].ins) <= 1
                     /\ tx'[b].op # "add_node" => tx'[b].ins = {}]_vars

\* C15 witness: an add_node call whose reconciler run wrote is_sync of a
\* master row that was there before, beside the row it inserted
C15_Witness ==
    /\ Returned("b1", {"add_node"})
    /\ tx["b1"].ret
    /\ \E u \in tx["b1"].upd : \E r \in table :
          r.seqno = u[1] /\ r.is_master /\ r.is_sync # u[2]
    /\ Cardinality(Apply(table, tx["b1"])) = 2

(* ------------------------------------------------------------------ *)
(* Properties of the shared cell and of the dispatch                    *)
(* ------------------------------------------------------------------ *)

\* the supervisor is inside one of its two loops
InLoop ==
    pc \in {"standby", "standby_wait", "standby_sig", "standby_refresh", "promote",
            "master", "master_wait", "master_sig", "master_refresh"}

\* C16: the cell is written once.  The cell changes only in the startup
\* step of KeeperMain, before the first dispatch, from 0 to the supervisor's
\* own pid; from the first dispatch on it holds that pid, in both loops,
\* through a promotion and the second dispatch, and after the process has
\* ended; no step of a backend's call changes it.
C16_CellWriteOnce ==
    /\ [][PgKeeperPid' # PgKeeperPid
            => /\ pc = "connect"
               /\ pc' = "exec"
               /\ dispatches = 0
               /\ PgKeeperPid = 0
               /\ PgKeeperPid' = MyProcPid]_vars
    /\ []((pc = "exec" \/ InLoop \/ dispatches > 0) => PgKeeperPid = MyProcPid)
    /\ [][\A b \in Backends : tx'[b] # tx[b] => PgKeeperPid' = PgKeeperPid]_vars

\* C16 witness: a promoted supervisor in the master loop, after a client has
\* deleted a node and signalled it
C16_Witness ==
    /\ pc = "master_wait"
    /\ promotions = 1
    /\ dispatches = 2
    /\ PgKeeperPid = MyProcPid
    /\ Returned("b1", {"del_node", "del_node_by_seqno"})
    /\ tx["b1"].ret
    /\ tx["b1"].killed

(* ------------------------------------------------------------------ *)
(* Properties of the signal handling                                    *)
(* ------------------------------------------------------------------ *)

\* the supervisor is looking at its pending flags after the wait
AtFlags == pc \in {"standby_sig", "master_sig"}

\* the loop position a handling step goes back to
LoopStart == IF pc \in {"standby_sig", "standby_refresh"} THEN "standby" ELSE "master"

\* the registry holds nothing the supervisor's node list does not show and
\* nothing the reconciler would write
RegistryUnchanged ==
    /\ KeeperRepNodes = updateLocalCache(table)
    /\ SyncWrites(table, ssnames) = {}

\* C17: refresh and reload signals lose no state.  The delivery of SIGHUP or
\* SIGUSR1 to a supervisor that has unblocked its signals sets its flag and touches neither the termination flag nor the
\* supervisor's state; the step that handles the pending flags, when SIGTERM
\* is not among them, and the refresh that handles SIGUSR1 leave the
\* substate (so the role), retry_count, the threshold and the exit status as
\* they were and go on with the same loop; and a refresh over an unchanged
\* registry leaves the registry and the node list as they were, so the next
\* poll starts from the state it would have had without the signal.
C17_SignalsLoseNoState ==
    /\ [][(pc # "init" /\ ((got_sighup' /\ ~got_sighup) \/ (got_sigusr1' /\ ~got_sigusr1)))
            => UNCHANGED <<supvars, PgKeeperPid, got_sigterm, table>>]_vars
    /\ [][(AtFlags /\ pc' # pc /\ ~got_sigterm)
            => /\ pc' = IF got_sigusr1 THEN (IF pc = "standby_sig" THEN "standby_refresh"
                                                                  ELSE "master_refresh")
                                        ELSE LoopStart
               /\ UNCHANGED <<current_status, retry_count, ret, exit_code,
                              KeeperRepNodes, keeper_keepalives_count, table,
                              PgKeeperPid, histvars>>]_vars
    /\ [][(Refreshing /\ pc' # pc)
            => /\ pc' = LoopStart
               /\ UNCHANGED <<current_status, retry_count, ret, exit_code,
                              keeper_keepalives_count, PgKeeperPid, histvars>>
               /\ RegistryUnchanged => UNCHANGED <<table, KeeperRepNodes>>]_vars

\* C17 witness: a standby two failures into its streak is handling a SIGUSR1
\* that came with no change of the registry, SIGHUP having been handled too
C17_Witness ==
    /\ pc = "standby_refresh"
    /\ retry_count = 2
    /\ current_status = "KEEPER_STANDBY_CONNECTED"
    /\ table # {}
    /\ RegistryUnchanged
    /\ ~got_sighup
    /\ ~got_sigusr1

(* ------------------------------------------------------------------ *)
(* Properties of add_node's synchronous flag                            *)
(* ------------------------------------------------------------------ *)

\* the bytes of a string with ASCII letters folded to lower case
Folded(s) == [i \in 1..Len(Chars(s)) |-> Lower(Chars(s)[i])]

\* the two names are the same whole name but for letter case
SameName(a, b) == Folded(a) = Folded(b)

\* C18: add_node's synchronous flag.  A successful add_node inserts one row,
\* and inserts it with is_sync = true exactly when it inserts it as a
\* non-master and some member of the live list is the node's whole name but
\* for letter case; a member of which the name is only a part does not
\* count, and a row inserted as master is inserted with is_sync = false.
C18_AddNodeIsSync ==
    [][\A b \in Backends :
          (tx[b].st = "idle" /\ tx'[b].st = "active"
              /\ tx'[b].op = "add_node" /\ tx'[b].ret)
            => \E r \in tx'[b].ins :
                  /\ tx'[b].ins = {r}
                  /\ r.seqno = nextSeq
                  /\ r.is_sync = (/\ ~r.is_master
                                  /\ \E i \in 1..Len(ssnames) :
                                        SameName(ssnames[i], r.name))
                  /\ r.is_master => ~r.is_sync]_vars

\* C18 witness: n1 inserted as a synchronous standby under a list that holds
\* N1, and n10 of which n1 is a part, but not n1 itself
C18_Witness ==
    /\ Returned("b1", {"add_node"})
    /\ tx["b1"].ret
    /\ ssnames = <<"n10", "N1">>
    /\ \E r \in tx["b1"].ins : r.name = "n1" /\ ~r.is_master /\ r.is_sync

(* ------------------------------------------------------------------ *)
(* Properties of the dispatch                                           *)
(* ------------------------------------------------------------------ *)

\* C19: the dispatch only sees a READY status.  Whenever control is at the
\* dispatch of KeeperMain the status is MASTER_READY or STANDBY_READY, so
\* the dispatch always enters one of the two routines and the invalid-mode
\* error is never raised: an exit with status 1 is that of a worker whose
\* startup failed, before any dispatch.  The dispatch is reached at most
\* twice, and the second time is the one after the promotion, as a master.
C19_DispatchReady ==
    /\ [](pc = "exec"
            => current_status \in {"KEEPER_MASTER_READY", "KEEPER_STANDBY_READY"})
    /\ [](dispatches <= 2)
    /\ [](exit_code = 1 => dispatches = 0)
    /\ [][(pc = "exec" /\ pc' # pc)
            => /\ pc' \in {"master", "standby"}
               /\ dispatches' = dispatches + 1
               /\ dispatches' = 2
                    => /\ promotions = 1
                       /\ current_status = "KEEPER_MASTER_READY"
                       /\ pc' = "master"]_vars

\* C19 witness: control is at the dispatch for the second time, promoted
C19_Witness ==
    /\ pc = "exec"
    /\ dispatches = 1
    /\ promotions = 1
    /\ current_status = "KEEPER_MASTER_READY"
    /\ keeper_keepalives_count = 2

(* ------------------------------------------------------------------ *)
(* Properties of the wakeups                                            *)
(* ------------------------------------------------------------------ *)

\* a refresh has just started: the loop has taken the pending SIGUSR1 and no
\* later one is pending
RefreshStarted == Refreshing /\ ~got_sigusr1

\* every delivery sets the signal's flag and the latch (a signal sent while
\* the worker still blocks signals is delivered at the unblocking), and a
\* flag that is set stays set until the loop, looking at its flags after the wait, takes
\* it; the loop takes SIGUSR1 only to start a refresh, and never takes SIGTERM
FlagsKept ==
    /\ [][(Signal("SIGUSR1") /\ pc # "init") => got_sigusr1' /\ latch']_vars
    /\ [][(Signal("SIGHUP") /\ pc # "init") => got_sighup' /\ latch']_vars
    /\ [][(Signal("SIGTERM") /\ pc # "init") => got_sigterm' /\ latch']_vars
    /\ [][(pc = "init" /\ pc' = "connect")
            => /\ "SIGUSR1" \in pending => got_sigusr1' /\ latch'
               /\ "SIGHUP" \in pending => got_sighup' /\ latch'
               /\ "SIGTERM" \in pending => got_sigterm' /\ latch']_vars
    /\ [][(got_sigusr1 /\ ~got_sigusr1')
            => AtFlags /\ ~got_sigterm /\ Refreshing']_vars
    /\ [][(got_sighup /\ ~got_sighup') => AtFlags /\ ~got_sigterm]_vars
    /\ [][got_sigterm => got_sigterm']_vars

\* the supervisor has come through its startup and has not ended
Running == Started

\* C20 as claimed: no lost wakeup.  Every SIGUSR1 delivered to a running
\* supervisor is followed by the start of a refresh, whatever else is
\* delivered; the flag being cleared only when a refresh starts, a
\* supervisor that has run never ends with the flag of a delivered SIGUSR1
\* still set.
C20_EveryWakeupRefreshes ==
    (pc = "exited" /\ dispatches > 0) => ~got_sigusr1

\* C20 amended: no lost wakeup.  Every delivery sets the flag and the latch,
\* the flag stays set until the loop takes it, and every SIGUSR1 delivered
\* to a running supervisor is followed, with no further signal needed, by
\* the start of a refresh, unless SIGTERM is delivered before the loop takes
\* the flag.
C20_NoLostWakeup ==
    /\ FlagsKept
    /\ (got_sigusr1 /\ Running) ~> (RefreshStarted \/ got_sigterm)

\* C20 witness: a SIGUSR1 delivered while the refresh for an earlier one runs
C20_Witness ==
    /\ pc = "master_refresh"
    /\ got_sigusr1
    /\ latch
    /\ ~got_sigterm

====
